---- MODULE Spec2Model ----
(***************************************************************************)
(* The per-host crawl worker of gocrawl (worker.go).  One worker per host   *)
(* receives batches of commands on its pop channel, fetches and visits      *)
(* them through the Extender hooks, and pushes workerResponses on the one   *)
(* result channel shared by all workers.  Time is a discrete clock (one     *)
(* unit = one second); the worker's own computation takes no time, only     *)
(* Fetch calls, timers and blocked channel operations do.                   *)
(***************************************************************************)
EXTENDS Integers, Sequences, FiniteSets, TLC

VARIABLES
    w,          \* host -> the worker struct, its position in run() and its locals
    pop,        \* host -> the worker's pop channel (batches in flight)
    push,       \* the result channel shared by all workers
    stop,       \* the stop channel has been closed
    wg,         \* the wait-group counter
    now,        \* the clock
    submitted,  \* host -> number of commands the crawler has sent so far
    received,   \* the host and URL id of the responses the crawler has read
                \* from the result channel, in order
    extender,   \* the Extender the workers were given: the answers it can give
    budget      \* host -> number of commands the crawler has for the host

vars == <<w, pop, push, stop, wg, now, submitted, received, extender, budget>>

----------------------------------------------------------------------------
(* Bounds of the model. *)

MaxTime == 3
MaxCmds == 2
MaxBatch == 2
PushCap == 1
MaxFetchTime == 1

----------------------------------------------------------------------------
(* Values. *)

RobotsPath == "/robots.txt"
Paths == {RobotsPath, "/pub", "/priv"}

\* A *url.URL: nil, or a path with the identity of the pointer (the rank of
\* the command among those submitted to the host).
NilUrl == [isNil |-> TRUE, Path |-> "", id |-> 0]
Url(path, id) == [isNil |-> FALSE, Path |-> path, id |-> id]

\* A timer channel: Nil, or <<deadline>>.
Nil == <<>>

\* *robotstxt.Group
NilGroup == [isNil |-> TRUE, disallow |-> {}, CrawlDelay |-> 0]
\* *FetchInfo
NilFetchInfo == [isNil |-> TRUE, Duration |-> 0, StatusCode |-> 0,
                 Head |-> FALSE, Robots |-> FALSE]

Max(a, b) == IF a >= b THEN a ELSE b

RECURSIVE Count(_, _)
Count(s, x) ==
    IF s = <<>> THEN 0
    ELSE (IF Head(s) = x THEN 1 ELSE 0) + Count(Tail(s), x)

Has(s, x) == \E i \in 1..Len(s) : s[i] = x

----------------------------------------------------------------------------
(* The Extender and the libraries, as the sets of answers they can give. *)

\* Raw robots.txt contents: unparsable, a group that allows everything, and
\* "User-agent: *\nDisallow: /priv\nCrawl-delay: 2".
RobotsBytes == {"garbage", "allowall", "disallowpriv"}

\* robotstxt.FromBytes followed by FindGroup
FromBytes(b) ==
    CASE b = "disallowpriv" ->
            [err |-> FALSE,
             g |-> [isNil |-> FALSE, disallow |-> {"/priv"}, CrawlDelay |-> 2]]
      [] b = "allowall" ->
            [err |-> FALSE,
             g |-> [isNil |-> FALSE, disallow |-> {}, CrawlDelay |-> 0]]
      [] OTHER -> [err |-> TRUE, g |-> NilGroup]

\* Group.Test
Test(g, path) == path \notin g.disallow

\* Bodies of pages: one that cannot be read, one that html.Parse rejects
\* and one it accepts.  (A robots.txt body is RobotsBytes, or unreadable.)
PageBodies == {"readerr", "badhtml", "html"}

StatusCodes == {200, 300, 404}

\* The href values of the anchors of the one parsable page: a fragment, a
\* rooted path, a value url.Parse rejects and an empty one.  A value is
\* its length, whether it starts with "#", whether url.Parse accepts it,
\* and what it resolves to against the document's URL.
Hrefs ==
    << [len |-> 5, hash |-> TRUE,  parses |-> TRUE,  abs |-> "http://h/p#frag"],
       [len |-> 2, hash |-> FALSE, parses |-> TRUE,  abs |-> "http://h/x"],
       [len |-> 3, hash |-> FALSE, parses |-> FALSE, abs |-> ""],
       [len |-> 0, hash |-> FALSE, parses |-> TRUE,  abs |-> "http://h/p"] >>

\* What Visit may return as its harvested list.
VisitHarvests == {<<>>, <<"http://h/v">>}

\* ComputeDelay(host, di, lastFetch): the hook decides; here it may answer
\* zero or the larger of the configured and the robots delay.
ComputeDelay(host, di, lastFetch) ==
    {0, Max(di.OptsDelay, di.RobotsDelay)}

\* An Extender that can give every answer, and one that gives the plain
\* answers only.
FullExtender ==
    [codes |-> StatusCodes, pages |-> PageBodies,
     harvests |-> VisitHarvests, robots |-> RobotsBytes]
PlainExtender ==
    [codes |-> {200}, pages |-> {"html"},
     harvests |-> {<<>>}, robots |-> {"disallowpriv"}]


----------------------------------------------------------------------------
(* The worker's helpers. *)

\* isRobotsTxtUrl(u): false for a nil URL.
isRobotsTxtUrl(u) == ~u.isNil /\ u.Path = RobotsPath

\* time.After(d), called at time t
After(t, d) == <<t + d>>

\* A receive from a timer channel can proceed at time t.
Fired(timer, t) == timer # Nil /\ t >= timer[1]

\* Mutant: the upper bound of the good status codes is off by one.
IsSuccessUpTo300(code) == code >= 200 /\ code <= 300

\* res.StatusCode >= 200 && res.StatusCode < 300
IsSuccess(code) == code >= 200 /\ code < 300

\* Mutant: the robots policy is never consulted.
isAllowedAlways(self, u) == TRUE

\* isAllowedPerRobotsPolicies
isAllowedPerRobotsPolicies(self, u) ==
    IF ~self.robotsGroup.isNil THEN Test(self.robotsGroup, u.Path) ELSE TRUE

\* Mutant: the delay of the robots policy is passed as the last delay.
DelayInfoOfNoLast(self) ==
    [OptsDelay |-> self.crawlDelay,
     RobotsDelay |-> IF ~self.robotsGroup.isNil
                     THEN self.robotsGroup.CrawlDelay ELSE 0,
     LastDelay |-> IF ~self.robotsGroup.isNil
                   THEN self.robotsGroup.CrawlDelay ELSE 0]

\* The DelayInfo setCrawlDelay hands to ComputeDelay.
DelayInfoOf(self) ==
    [OptsDelay |-> self.crawlDelay,
     RobotsDelay |-> IF ~self.robotsGroup.isNil
                     THEN self.robotsGroup.CrawlDelay ELSE 0,
     LastDelay |-> self.lastCrawlDelay]

\* The name under which a Fetch call is logged.
FetchCall(robots, head) ==
    IF robots THEN (IF head THEN "Fetch:robot:HEAD" ELSE "Fetch:robot:GET")
    ELSE (IF head THEN "Fetch:ua:HEAD" ELSE "Fetch:ua:GET")

\* The name under which a call of robotstxt.FromBytes(b) is logged.
FromBytesCall(b) ==
    CASE b = "disallowpriv" -> "FromBytes:disallowpriv"
      [] b = "allowall" -> "FromBytes:allowall"
      [] OTHER -> "FromBytes:garbage"

\* Mutant: the hook is not told that robots.txt was fetched.
getRobotsTxtGroupUnnotified(b, fetched, body) ==
    LET readErr == fetched /\ body = "readerr"
        bytes == IF fetched THEN body ELSE b
        parsed == FromBytes(bytes)
        e == readErr \/ parsed.err
    IN  [g |-> IF e THEN NilGroup ELSE parsed.g,
         calls |-> (IF readErr THEN <<>> ELSE <<FromBytesCall(bytes)>>)
                   \o (IF e THEN <<"Error:ParseRobots">> ELSE <<>>)]

\* getRobotsTxtGroup(b, res): the group and the calls made.  fetched says
\* that res is not nil, and then body is what reading res.Body gives.
getRobotsTxtGroup(b, fetched, body) ==
    LET readErr == fetched /\ body = "readerr"
        bytes == IF fetched THEN body ELSE b
        parsed == FromBytes(bytes)
        e == readErr \/ parsed.err
    IN  [g |-> IF e THEN NilGroup ELSE parsed.g,
         calls |-> (IF fetched THEN <<"FetchedRobots">> ELSE <<>>)
                   \o (IF readErr THEN <<>> ELSE <<FromBytesCall(bytes)>>)
                   \o (IF e THEN <<"Error:ParseRobots">> ELSE <<>>)]

\* processLinks(doc)
RECURSIVE processLinks(_)
processLinks(hrefs) ==
    IF hrefs = <<>> THEN <<>>
    ELSE LET s == Head(hrefs)
             rest == processLinks(Tail(hrefs))
         IN  IF s.len > 0 /\ ~s.hash /\ s.parses THEN <<s.abs>> \o rest ELSE rest

\* Mutant: Visited is told what Visit returned, not what was harvested.
visitUrlStaleList(body, visitHarvested, doLinks) ==
    LET hasDoc == body = "html"
        loadCalls == CASE body = "readerr" -> <<"Error:ReadBody">>
                       [] body = "badhtml" -> <<"Error:ParseBody">>
                       [] OTHER -> <<>>
        harvested == IF doLinks /\ hasDoc THEN processLinks(Hrefs)
                     ELSE visitHarvested
        linkCalls == IF doLinks /\ ~hasDoc THEN <<"Error:ProcessLinks">> ELSE <<>>
    IN  [harvested |-> harvested,
         calls |-> loadCalls \o <<"Visit">> \o linkCalls \o <<"Visited">>,
         args |-> [doc |-> hasDoc, returned |-> visitHarvested, doLinks |-> doLinks,
                   visited |-> visitHarvested]]

\* visitUrl(res): the harvested list and the hooks called, for a body and
\* the two answers of Visit.  args: whether Visit was given a document,
\* what it returned, and the list Visited was given.
visitUrl(body, visitHarvested, doLinks) ==
    LET hasDoc == body = "html"
        loadCalls == CASE body = "readerr" -> <<"Error:ReadBody">>
                       [] body = "badhtml" -> <<"Error:ParseBody">>
                       [] OTHER -> <<>>
        harvested == IF doLinks /\ hasDoc THEN processLinks(Hrefs)
                     ELSE visitHarvested
        linkCalls == IF doLinks /\ ~hasDoc THEN <<"Error:ProcessLinks">> ELSE <<>>
    IN  [harvested |-> harvested,
         calls |-> loadCalls \o <<"Visit">> \o linkCalls \o <<"Visited">>,
         args |-> [doc |-> hasDoc, returned |-> visitHarvested, doLinks |-> doLinks,
                   visited |-> harvested]]

\* sendResponse(u, visited, harvested, idleDeath), and then go on at
\* `after`: the send blocks at "push" until the channel takes the response.
sendResponse(self, u, visited, harvested, idleDeath, after) ==
    IF ~isRobotsTxtUrl(u)
    THEN [self EXCEPT !.pc = "push", !.after = after,
              !.res = <<[host |-> self.host, visited |-> visited, u |-> u,
                         harvested |-> harvested, idleDeath |-> idleDeath]>>]
    ELSE [self EXCEPT !.pc = after]

\* Mutant: the idle timer is armed once and not armed again.
loopTopKeepTimer(self, t) ==
    [self EXCEPT !.pc = "select", !.batch = <<>>,
                 !.idleChan = IF self.idleTTL > 0
                              THEN After(self.enteredAt, self.idleTTL) ELSE Nil,
                 !.enteredAt = t, !.nDispatched = 0, !.sel = <<>>,
                 !.otherReady = IF stop \/ pop[self.host] # <<>> THEN <<t>> ELSE Nil]

\* The top of the loop of run: arm the idle timer and wait in the select.
loopTop(self, t) ==
    [self EXCEPT !.pc = "select", !.batch = <<>>,
                 !.idleChan = IF self.idleTTL > 0 THEN After(t, self.idleTTL) ELSE Nil,
                 !.enteredAt = t, !.nDispatched = 0, !.sel = <<>>,
                 !.otherReady = IF stop \/ pop[self.host] # <<>> THEN <<t>> ELSE Nil]

\* Mutant: the wait-group is not decremented.
DoneForgotten(n) == n

\* wg.Done, deferred by run
Done(n) == n - 1

\* A return of run: the deferred function runs.
runReturn(self, reason) == [self EXCEPT !.pc = "done", !.exit = reason]

\* One step of worker h, leaving it as `new`.
Step(h, new) ==
    /\ w' = [w EXCEPT ![h] = new]
    /\ wg' = IF new.pc = "done" THEN Done(wg) ELSE wg

Cmd(self) == self.cmd
NoCmd == [u |-> NilUrl, head |-> FALSE]

----------------------------------------------------------------------------
(* The initial state: the workers the crawler has launched. *)

NewWorker(h, ttl) ==
    [host |-> h, crawlDelay |-> 1, idleTTL |-> ttl,
     robotsGroup |-> NilGroup, lastFetch |-> NilFetchInfo, lastCrawlDelay |-> 0,
     wait |-> Nil,
     \* position and locals
     pc |-> "select", idleChan |-> IF ttl > 0 THEN After(0, ttl) ELSE Nil,
     batch |-> <<>>, cmd |-> NoCmd, headRequest |-> FALSE, fetchNow |-> 0, delayWait |-> Nil,
     res |-> <<>>, after |-> "",
     \* the arguments and answers of Visit and Visited, until the push
     visit |-> <<>>,
     \* history of the current command, wait and fetch attempts
     calls |-> <<>>, exit |-> "", nIdleDeath |-> 0,
     enteredAt |-> 0, otherReady |-> Nil, sel |-> <<>>, nDispatched |-> 0,
     att |-> [start |-> 0, delay |-> 0, opts |-> 0, rob |-> 0, last |-> 0,
              info |-> NilFetchInfo, head |-> FALSE, robots |-> FALSE],
     lastAtt |-> <<>>]

IdleTTLs == {0, 2}

InitOf(ttls, ext, cmds) ==
    /\ \E ttl \in ttls : w = [h \in DOMAIN cmds |-> NewWorker(h, ttl)]
    /\ pop = [h \in DOMAIN cmds |-> <<>>]
    /\ push = <<>>
    /\ stop = FALSE
    /\ wg = Cardinality(DOMAIN cmds)
    /\ now = 0
    /\ submitted = [h \in DOMAIN cmds |-> 0]
    /\ received = <<>>
    /\ extender = ext
    /\ budget = cmds

\* One worker, any Extender.
Init == InitOf(IdleTTLs, FullExtender, [h \in {"h1"} |-> MaxCmds])

----------------------------------------------------------------------------
(* The crawler's side of the channels and the clock. *)

\* The commands the crawler sends: the robots.txt command, and plain or
\* HEAD-first commands for an allowed and for a disallowed path.
CmdKinds ==
    {[path |-> RobotsPath, head |-> FALSE]}
    \cup [path : {"/pub", "/priv"}, head : BOOLEAN]

\* Something other than the idle timer is ready in the select of worker h.
NoteReady(self, t) ==
    IF self.pc = "select" /\ self.otherReady = Nil
    THEN [self EXCEPT !.otherReady = <<t>>] ELSE self

\* close(stop)
SetStop ==
    /\ ~stop
    /\ stop' = TRUE
    /\ w' = [h \in DOMAIN w |-> NoteReady(w[h], now)]
    /\ UNCHANGED <<pop, push, wg, now, submitted, received, extender, budget>>

\* The crawler sends a batch of commands to worker h.  A command in flight
\* is its rank among the host's commands; its URL and head flag are drawn
\* when the worker takes it up, the first time anything reads them.
SendBatch(h) ==
    /\ w[h].pc # "done"
    /\ pop[h] = <<>>
    /\ \E n \in 1..MaxBatch :
         /\ submitted[h] + n <= budget[h]
         /\ pop' = [pop EXCEPT ![h] = << [i \in 1..n |-> submitted[h] + i] >>]
         /\ submitted' = [submitted EXCEPT ![h] = @ + n]
    /\ w' = [w EXCEPT ![h] = NoteReady(@, now)]
    /\ UNCHANGED <<push, stop, wg, now, received, extender, budget>>

\* The crawler receives the next workerResponse.
Receive ==
    /\ push # <<>>
    /\ received' = Append(received, [host |-> Head(push).host, id |-> Head(push).u.id])
    /\ push' = Tail(push)
    /\ UNCHANGED <<w, pop, stop, wg, now, submitted, extender, budget>>

\* Worker h can go on without time passing: it is running, or it is
\* blocked in a select, a timer receive or a send that can proceed.  (A
\* blocked select is woken by the first case that becomes ready; when
\* several are ready at once the select takes any one of them.)
Urgent(h) ==
    LET self == w[h] IN
    \/ self.pc \in {"dispatch", "stopCheck"}
    \/ self.pc = "select" /\ (stop \/ pop[h] # <<>> \/ Fired(self.idleChan, now))
    \/ self.pc = "fetchWait" /\ (self.wait = Nil \/ Fired(self.wait, now))
    \/ self.pc = "delay" /\ Fired(self.delayWait, now)
    \/ self.pc = "push" /\ Len(push) < PushCap

\* Time passes while no worker can go on; a Fetch call returns within
\* MaxFetchTime.
Tick ==
    /\ now < MaxTime
    /\ \E h \in DOMAIN w : w[h].pc # "done"
    /\ \A h \in DOMAIN w : ~Urgent(h)
    /\ \A h \in DOMAIN w : w[h].pc = "fetch" => now - w[h].fetchNow < MaxFetchTime
    /\ now' = now + 1
    /\ UNCHANGED <<w, pop, push, stop, wg, submitted, received, extender, budget>>

----------------------------------------------------------------------------
(* run: the select on stop, the idle timer and the pop channel. *)

Selected(self, branch) ==
    [self EXCEPT !.sel = <<[stopReady |-> stop, branch |-> branch]>>]

\* case <-this.stop
StopWhileWaiting(h) ==
    LET self == w[h] IN
    /\ self.pc = "select"
    /\ stop
    /\ Step(h, runReturn(Selected(self, "stop"), "stop-wait"))
    /\ UNCHANGED <<pop, push, stop, now, submitted, received, extender, budget>>

\* case <-idleChan
IdleTimeout(h) ==
    LET self == w[h] IN
    /\ self.pc = "select"
    /\ Fired(self.idleChan, now)
    /\ Step(h, sendResponse(Selected(self, "idle"), NilUrl, FALSE, <<>>, TRUE, "done"))
    /\ UNCHANGED <<pop, push, stop, now, submitted, received, extender, budget>>

\* case batch := <-this.pop
PopBatch(h) ==
    LET self == w[h] IN
    /\ self.pc = "select"
    /\ pop[h] # <<>>
    /\ Step(h, [Selected(self, "batch") EXCEPT !.pc = "dispatch",
                                               !.batch = Head(pop[h]),
                                               !.idleChan = Nil, !.enteredAt = 0,
                                               !.otherReady = Nil])
    /\ pop' = [pop EXCEPT ![h] = Tail(@)]
    /\ UNCHANGED <<push, stop, now, submitted, received, extender, budget>>

----------------------------------------------------------------------------
(* run: one command of the batch. *)

\* Mutant: the batch is read from its last command.
StartedFromLast(self, kind) ==
    [self EXCEPT !.cmd = [u |-> Url(kind.path, self.batch[Len(self.batch)]),
                          head |-> kind.head],
                 !.calls = <<>>, !.nDispatched = @ + 1]

\* The command at the head of the batch starts: cmd is what it holds.
Started(self, kind) ==
    [self EXCEPT !.cmd = [u |-> Url(kind.path, Head(self.batch)), head |-> kind.head],
                 !.calls = <<>>, !.nDispatched = @ + 1]

\* fetchUrl is entered.
fetchUrlEnter(self, headRequest) ==
    [self EXCEPT !.pc = "fetchWait", !.headRequest = headRequest]

\* requestRobotsTxt, RequestRobots answering "use the cache"
RobotsFromCache(h) ==
    LET self == w[h] IN
    /\ self.pc = "dispatch"
    /\ \E kind \in CmdKinds, robData \in extender.robots :
         LET st == Started(self, kind)
             r == getRobotsTxtGroup(robData, FALSE, "")
         IN  /\ isRobotsTxtUrl(st.cmd.u)
             /\ Step(h, [st EXCEPT !.robotsGroup = r.g,
                                   !.calls = <<"RequestRobots">> \o r.calls,
                                   !.pc = "stopCheck"])
    /\ UNCHANGED <<pop, push, stop, now, submitted, received, extender, budget>>

\* requestRobotsTxt, RequestRobots answering "fetch it"
RobotsFetch(h) ==
    LET self == w[h] IN
    /\ self.pc = "dispatch"
    /\ \E kind \in CmdKinds :
         LET st == Started(self, kind) IN
         /\ isRobotsTxtUrl(st.cmd.u)
         /\ Step(h, fetchUrlEnter([st EXCEPT !.calls = <<"RequestRobots">>], FALSE))
    /\ UNCHANGED <<pop, push, stop, now, submitted, received, extender, budget>>

\* requestUrl for a command the robots policy allows
RequestUrl(h) ==
    LET self == w[h] IN
    /\ self.pc = "dispatch"
    /\ \E kind \in CmdKinds :
         LET st == Started(self, kind) IN
         /\ ~isRobotsTxtUrl(st.cmd.u)
         /\ isAllowedPerRobotsPolicies(self, st.cmd.u)
         /\ Step(h, fetchUrlEnter(st, st.cmd.head))
    /\ UNCHANGED <<pop, push, stop, now, submitted, received, extender, budget>>

\* The command is disallowed by the robots policy.
Disallowed(h) ==
    LET self == w[h] IN
    /\ self.pc = "dispatch"
    /\ \E kind \in CmdKinds :
         LET st == Started(self, kind) IN
         /\ ~isRobotsTxtUrl(st.cmd.u)
         /\ ~isAllowedPerRobotsPolicies(self, st.cmd.u)
         /\ Step(h, sendResponse([st EXCEPT !.calls = <<"Disallowed">>],
                                 st.cmd.u, FALSE, <<>>, FALSE, "stopCheck"))
    /\ UNCHANGED <<pop, push, stop, now, submitted, received, extender, budget>>

----------------------------------------------------------------------------
(* fetchUrl: the loop around Extender.Fetch. *)

NoAttempt == [start |-> 0, delay |-> 0, opts |-> 0, rob |-> 0, last |-> 0,
              info |-> NilFetchInfo, head |-> FALSE, robots |-> FALSE]

\* Mutant: the pending crawl delay is not waited out.
DelayOverAtOnce(self, t) == TRUE

\* The pending crawl delay, if any, is over at time t.
DelayOver(self, t) == self.wait = Nil \/ Fired(self.wait, t)

\* The wait for the pending delay is over: setCrawlDelay, then Fetch is
\* called with delay d computed by the hook.
fetchUrlCall(self, d, t) ==
    LET di == DelayInfoOf(self) IN
    [self EXCEPT !.pc = "fetch", !.wait = Nil, !.lastCrawlDelay = d,
                 !.fetchNow = t,
                 !.calls = @ \o <<"ComputeDelay",
                                  FetchCall(isRobotsTxtUrl(Cmd(self).u),
                                            self.headRequest)>>,
                 !.att = [start |-> t, delay |-> d,
                          opts |-> di.OptsDelay, rob |-> di.RobotsDelay,
                          last |-> di.LastDelay, info |-> self.lastFetch,
                          head |-> self.headRequest,
                          robots |-> isRobotsTxtUrl(Cmd(self).u)]]

FetchStart(h) ==
    LET self == w[h] IN
    /\ self.pc = "fetchWait"
    /\ DelayOver(self, now)
    /\ \E d \in ComputeDelay(h, DelayInfoOf(self), self.lastFetch) :
         Step(h, fetchUrlCall(self, d, now))
    /\ UNCHANGED <<pop, push, stop, now, submitted, received, extender, budget>>

\* The attempt that has just returned, for the record.
Attempted(self, ok, t) ==
    [self EXCEPT !.att = NoAttempt, !.fetchNow = 0,
                 !.lastAtt = <<[start |-> self.att.start, end |-> t,
                                delay |-> self.att.delay, opts |-> self.att.opts,
                                rob |-> self.att.rob, ok |-> ok,
                                head |-> self.att.head,
                                robots |-> self.att.robots]>>]

\* Mutant: the fetch info of the fetch before is kept after a failed fetch.
fetchUrlFailedKeepsInfo(self, t) ==
    sendResponse([Attempted(self, FALSE, t) EXCEPT
                     !.headRequest = FALSE,
                     !.calls = @ \o <<"Error:Fetch">>],
                 Cmd(self).u, FALSE, <<>>, FALSE, "stopCheck")

\* Mutant: a failed fetch is not reported to the crawler.
fetchUrlFailedSilent(self, t) ==
    [Attempted(self, FALSE, t) EXCEPT
        !.lastFetch = NilFetchInfo, !.headRequest = FALSE,
        !.calls = @ \o <<"Error:Fetch">>,
        !.pc = "stopCheck"]

\* Fetch returned an error.
fetchUrlFailed(self, t) ==
    sendResponse([Attempted(self, FALSE, t) EXCEPT
                     !.lastFetch = NilFetchInfo, !.headRequest = FALSE,
                     !.calls = @ \o <<"Error:Fetch">>],
                 Cmd(self).u, FALSE, <<>>, FALSE, "stopCheck")

FetchError(h) ==
    LET self == w[h] IN
    /\ self.pc = "fetch"
    /\ Step(h, fetchUrlFailed(self, now))
    /\ UNCHANGED <<pop, push, stop, now, submitted, received, extender, budget>>

\* Fetch returned a response with status `code`: the crawl delay starts
\* and the fetch info is kept.
fetchUrlFetched(self, code, t) ==
    [Attempted(self, TRUE, t) EXCEPT
        !.wait = After(t, self.lastCrawlDelay),
        !.lastFetch = [isNil |-> FALSE, Duration |-> self.fetchNow - t,
                       StatusCode |-> code, Head |-> self.headRequest,
                       Robots |-> isRobotsTxtUrl(Cmd(self).u)]]

\* Mutant: the round after a HEAD is a HEAD again.
fetchUrlHeadStaysHead(self, code, get, t) ==
    [fetchUrlFetched(self, code, t) EXCEPT
        !.calls = @ \o <<IF get THEN "RequestGet:true" ELSE "RequestGet:false">>,
        !.pc = IF get THEN "fetchWait" ELSE "stopCheck"]

\* Mutant: the GET follows the HEAD whatever RequestGet answers.
fetchUrlHeadAlwaysGet(self, code, get, t) ==
    [fetchUrlFetched(self, code, t) EXCEPT
        !.headRequest = FALSE,
        !.calls = @ \o <<IF get THEN "RequestGet:true" ELSE "RequestGet:false">>,
        !.pc = "fetchWait"]

\* The response to a HEAD request: RequestGet decides.
fetchUrlHead(self, code, get, t) ==
    [fetchUrlFetched(self, code, t) EXCEPT
        !.headRequest = FALSE,
        !.calls = @ \o <<IF get THEN "RequestGet:true" ELSE "RequestGet:false">>,
        !.pc = IF get THEN "fetchWait" ELSE "stopCheck"]

HeadResponse(h) ==
    LET self == w[h] IN
    /\ self.pc = "fetch"
    /\ self.headRequest
    /\ \E code \in extender.codes, get \in BOOLEAN :
         Step(h, fetchUrlHead(self, code, get, now))
    /\ UNCHANGED <<pop, push, stop, now, submitted, received, extender, budget>>

\* Mutant: a status code that is not 2xx ends the worker.
requestUrlFetchedFatal(self, code, body, visitHarvested, doLinks, t) ==
    LET f == [fetchUrlFetched(self, code, t) EXCEPT
                 !.delayWait = After(t, self.lastCrawlDelay)]
        v == visitUrl(body, visitHarvested, doLinks)
    IN  IF IsSuccess(code)
        THEN sendResponse([f EXCEPT !.calls = @ \o v.calls, !.visit = <<v.args>>],
                          Cmd(self).u, TRUE, v.harvested, FALSE, "delay")
        ELSE runReturn([f EXCEPT !.calls = @ \o <<"Error:HttpStatus">>], "error")

\* requestUrl after fetchUrl returned the final response.
requestUrlFetched(self, code, body, visitHarvested, doLinks, t) ==
    LET f == [fetchUrlFetched(self, code, t) EXCEPT
                 !.delayWait = After(t, self.lastCrawlDelay)]
        v == visitUrl(body, visitHarvested, doLinks)
    IN  IF IsSuccess(code)
        THEN sendResponse([f EXCEPT !.calls = @ \o v.calls, !.visit = <<v.args>>],
                          Cmd(self).u, TRUE, v.harvested, FALSE, "delay")
        ELSE sendResponse([f EXCEPT !.calls = @ \o <<"Error:HttpStatus">>],
                          Cmd(self).u, FALSE, <<>>, FALSE, "delay")

UrlResponse(h) ==
    LET self == w[h] IN
    /\ self.pc = "fetch"
    /\ ~self.headRequest
    /\ ~isRobotsTxtUrl(Cmd(self).u)
    /\ \E code \in extender.codes, body \in extender.pages,
          visitHarvested \in extender.harvests, doLinks \in BOOLEAN :
         Step(h, requestUrlFetched(self, code, body, visitHarvested, doLinks, now))
    /\ UNCHANGED <<pop, push, stop, now, submitted, received, extender, budget>>

\* requestRobotsTxt after fetchUrl returned the response.
requestRobotsTxtFetched(self, code, body, t) ==
    LET r == getRobotsTxtGroup("", TRUE, body) IN
    [fetchUrlFetched(self, code, t) EXCEPT
        !.delayWait = After(t, self.lastCrawlDelay),
        !.robotsGroup = r.g,
        !.calls = @ \o r.calls,
        !.pc = "delay"]

RobotsResponse(h) ==
    LET self == w[h] IN
    /\ self.pc = "fetch"
    /\ ~self.headRequest
    /\ isRobotsTxtUrl(Cmd(self).u)
    /\ \E code \in extender.codes, body \in extender.robots \cup {"readerr"} :
         Step(h, requestRobotsTxtFetched(self, code, body, now))
    /\ UNCHANGED <<pop, push, stop, now, submitted, received, extender, budget>>

----------------------------------------------------------------------------
(* The blocking send, the wait for the crawl delay, the stop check. *)

\* Mutant: run does not return after the idle-death response.
pushedNoReturn(self) ==
    LET sent == [self EXCEPT !.pc = self.after, !.res = <<>>, !.after = "",
                             !.visit = <<>>,
                             !.calls = @ \o <<"push">>,
                             !.nIdleDeath = @ + (IF self.res[1].idleDeath THEN 1 ELSE 0)]
    IN  IF self.after = "done" THEN [sent EXCEPT !.pc = "select"] ELSE sent

\* this.push <- res
pushed(self) ==
    LET sent == [self EXCEPT !.pc = self.after, !.res = <<>>, !.after = "",
                             !.visit = <<>>,
                             !.calls = @ \o <<"push">>,
                             !.nIdleDeath = @ + (IF self.res[1].idleDeath THEN 1 ELSE 0)]
    IN  IF self.after = "done" THEN runReturn(sent, "idle") ELSE sent

Push(h) ==
    LET self == w[h] IN
    /\ self.pc = "push"
    /\ Len(push) < PushCap
    /\ push' = Append(push, self.res[1])
    /\ Step(h, pushed(self))
    /\ UNCHANGED <<pop, stop, now, submitted, received, extender, budget>>

\* <-wait at the end of requestUrl and requestRobotsTxt
DelayWait(h) ==
    LET self == w[h] IN
    /\ self.pc = "delay"
    /\ Fired(self.delayWait, now)
    /\ Step(h, [self EXCEPT !.pc = "stopCheck", !.delayWait = Nil])
    /\ UNCHANGED <<pop, push, stop, now, submitted, received, extender, budget>>

\* Mutant: the stop signal is looked at only after the last command of a
\* batch.
stopCheckAtBatchEnd(self, stopped, t) ==
    LET left == [self EXCEPT !.calls = <<>>, !.cmd = NoCmd] IN
    IF Len(self.batch) > 1
    THEN [left EXCEPT !.pc = "dispatch", !.batch = Tail(@)]
    ELSE IF stopped THEN runReturn(left, "stop-between") ELSE loopTop(left, t)

\* Mutant: the stop signal is not looked at between commands.
stopCheckBlind(self, stopped, t) ==
    LET left == [self EXCEPT !.calls = <<>>, !.cmd = NoCmd] IN
    IF Len(self.batch) > 1
    THEN [left EXCEPT !.pc = "dispatch", !.batch = Tail(@)]
    ELSE loopTop(left, t)

\* The non-blocking select on stop after a command, then the next command
\* of the batch or the top of the loop.
stopCheck(self, stopped, t) ==
    LET left == [self EXCEPT !.calls = <<>>, !.cmd = NoCmd] IN
    IF stopped THEN runReturn(left, "stop-between")
    ELSE IF Len(self.batch) > 1
         THEN [left EXCEPT !.pc = "dispatch", !.batch = Tail(@)]
         ELSE loopTop(left, t)

StopCheck(h) ==
    LET self == w[h] IN
    /\ self.pc = "stopCheck"
    /\ Step(h, stopCheck(self, stop, now))
    /\ UNCHANGED <<pop, push, stop, now, submitted, received, extender, budget>>

----------------------------------------------------------------------------

Next ==
    \/ \E h \in DOMAIN w : StopWhileWaiting(h)
    \/ \E h \in DOMAIN w : IdleTimeout(h)
    \/ \E h \in DOMAIN w : PopBatch(h)
    \/ \E h \in DOMAIN w : RobotsFromCache(h)
    \/ \E h \in DOMAIN w : RobotsFetch(h)
    \/ \E h \in DOMAIN w : RequestUrl(h)
    \/ \E h \in DOMAIN w : Disallowed(h)
    \/ \E h \in DOMAIN w : FetchStart(h)
    \/ \E h \in DOMAIN w : FetchError(h)
    \/ \E h \in DOMAIN w : HeadResponse(h)
    \/ \E h \in DOMAIN w : UrlResponse(h)
    \/ \E h \in DOMAIN w : RobotsResponse(h)
    \/ \E h \in DOMAIN w : Push(h)
    \/ \E h \in DOMAIN w : DelayWait(h)
    \/ \E h \in DOMAIN w : StopCheck(h)
    \/ \E h \in DOMAIN w : SendBatch(h)
    \/ SetStop
    \/ Receive
    \/ Tick

Spec == Init /\ [][Next]_vars

\* Two workers on the one result channel and the one stop channel, with a
\* plain Extender and no idle timeout.  The clock stands still: a worker
\* goes on only after a crawl delay of zero.
InitHosts == InitOf({0}, PlainExtender, [h \in {"h1", "h2"} |-> IF h = "h1" THEN 2 ELSE 1])

NextHosts ==
    \/ \E h \in DOMAIN w : StopWhileWaiting(h)
    \/ \E h \in DOMAIN w : PopBatch(h)
    \/ \E h \in DOMAIN w : RobotsFromCache(h)
    \/ \E h \in DOMAIN w : RobotsFetch(h)
    \/ \E h \in DOMAIN w : RequestUrl(h)
    \/ \E h \in DOMAIN w : Disallowed(h)
    \/ \E h \in DOMAIN w : FetchStart(h)
    \/ \E h \in DOMAIN w : FetchError(h)
    \/ \E h \in DOMAIN w : HeadResponse(h)
    \/ \E h \in DOMAIN w : UrlResponse(h)
    \/ \E h \in DOMAIN w : RobotsResponse(h)
    \/ \E h \in DOMAIN w : Push(h)
    \/ \E h \in DOMAIN w : DelayWait(h)
    \/ \E h \in DOMAIN w : StopCheck(h)
    \/ \E h \in DOMAIN w : SendBatch(h)
    \/ SetStop
    \/ Receive

SpecHosts == InitHosts /\ [][NextHosts]_vars

\* Worker h is blocked until a timer fires or its Fetch call returns.
Waiting(h) ==
    LET self == w[h] IN
    \/ self.pc = "select" /\ self.idleChan # Nil /\ ~Fired(self.idleChan, now)
    \/ self.pc = "fetchWait" /\ self.wait # Nil /\ ~Fired(self.wait, now)
    \/ self.pc = "delay" /\ ~Fired(self.delayWait, now)
    \/ self.pc = "fetch"

\* Time passes for as long as a worker waits for it: every timer fires in
\* the end.
TimePasses ==
    /\ \E h \in DOMAIN w : Waiting(h)
    /\ \A h \in DOMAIN w : ~Urgent(h)
    /\ \A h \in DOMAIN w : w[h].pc = "fetch" => now - w[h].fetchNow < MaxFetchTime
    /\ now' = now + 1
    /\ UNCHANGED <<w, pop, push, stop, wg, submitted, received, extender, budget>>

\* A step of worker h.
WorkerStep(h) ==
    \/ StopWhileWaiting(h) \/ IdleTimeout(h) \/ PopBatch(h)
    \/ RobotsFromCache(h) \/ RobotsFetch(h) \/ RequestUrl(h) \/ Disallowed(h)
    \/ FetchStart(h) \/ FetchError(h) \/ HeadResponse(h) \/ UrlResponse(h)
    \/ RobotsResponse(h) \/ Push(h) \/ DelayWait(h) \/ StopCheck(h)

\* One worker with a plain Extender, its goroutine scheduled fairly: a
\* worker that can take a step takes one in the end, every Extender call
\* returns and every timer fires.  Nothing is assumed of the crawler: it
\* may or may not send batches, close stop, or receive from the result
\* channel.
InitShutdown == InitOf(IdleTTLs, PlainExtender, [h \in {"h1"} |-> MaxCmds])

NextShutdown ==
    \/ \E h \in DOMAIN w : StopWhileWaiting(h)
    \/ \E h \in DOMAIN w : IdleTimeout(h)
    \/ \E h \in DOMAIN w : PopBatch(h)
    \/ \E h \in DOMAIN w : RobotsFromCache(h)
    \/ \E h \in DOMAIN w : RobotsFetch(h)
    \/ \E h \in DOMAIN w : RequestUrl(h)
    \/ \E h \in DOMAIN w : Disallowed(h)
    \/ \E h \in DOMAIN w : FetchStart(h)
    \/ \E h \in DOMAIN w : FetchError(h)
    \/ \E h \in DOMAIN w : HeadResponse(h)
    \/ \E h \in DOMAIN w : UrlResponse(h)
    \/ \E h \in DOMAIN w : RobotsResponse(h)
    \/ \E h \in DOMAIN w : Push(h)
    \/ \E h \in DOMAIN w : DelayWait(h)
    \/ \E h \in DOMAIN w : StopCheck(h)
    \/ \E h \in DOMAIN w : SendBatch(h)
    \/ SetStop
    \/ Receive
    \/ TimePasses

SpecShutdown ==
    /\ InitShutdown
    /\ [][NextShutdown]_vars
    /\ \A h \in {"h1"} : WF_vars(WorkerStep(h))
    /\ WF_vars(TimePasses)

----------------------------------------------------------------------------
(* Properties.  The calls of a command are complete when the worker stands *)
(* at the stop check that follows it.                                      *)

\* Worker h has processed the command at the head of its batch to the end.
AtEnd(h) == w[h].pc = "stopCheck"

\* The responses with URL id `id` that worker h has put on the channel.
RECURSIVE CountSent(_, _, _)
CountSent(s, h, id) ==
    IF s = <<>> THEN 0
    ELSE (IF Head(s).host = h /\ Head(s).id = id THEN 1 ELSE 0)
         + CountSent(Tail(s), h, id)

InChannel(h, id) ==
    Cardinality({i \in 1..Len(push) : push[i].host = h /\ push[i].u.id = id})

Sent(h, id) == CountSent(received, h, id) + InChannel(h, id)

IsFetchCall(c) ==
    c \in {"Fetch:ua:HEAD", "Fetch:ua:GET", "Fetch:robot:HEAD", "Fetch:robot:GET"}

Fetches(calls) == Cardinality({i \in 1..Len(calls) : IsFetchCall(calls[i])})

\* C1: every command processed to the end that is not the robots.txt
\* command has pushed exactly one workerResponse, whatever its outcome,
\* except that it has pushed none when the HEAD fetch returned a response
\* and RequestGet answered false; a robots.txt command has pushed none.
C1_OneResponsePerCommand ==
    \A h \in DOMAIN w :
        AtEnd(h) =>
            LET self == w[h]
                expected ==
                    IF isRobotsTxtUrl(self.cmd.u) THEN 0
                    ELSE IF Has(self.calls, "RequestGet:false") THEN 0
                    ELSE 1
            IN  /\ Count(self.calls, "push") = expected
                /\ Sent(h, self.cmd.u.id) = expected

\* A HEAD-first command whose GET failed after RequestGet agreed has
\* pushed its one response.
C1_Witness ==
    \E h \in DOMAIN w :
        /\ AtEnd(h)
        /\ Has(w[h].calls, "RequestGet:true")
        /\ Has(w[h].calls, "Error:Fetch")
        /\ Count(w[h].calls, "push") = 1

\* The command in hand is one the worker's current robots policy rejects.
Rejected(self) ==
    /\ self.pc \in {"fetchWait", "fetch", "push", "delay", "stopCheck"}
    /\ ~self.cmd.u.isNil
    /\ self.cmd.u.Path # RobotsPath
    /\ ~self.robotsGroup.isNil
    /\ self.cmd.u.Path \in self.robotsGroup.disallow

\* C2: a non-robots command whose path the current robots policy rejects
\* makes no Fetch call, calls Disallowed exactly once and pushes a response
\* with visited=false and no harvested links; with no policy no command is
\* treated as disallowed.
C2_DisallowedNeverFetched ==
    \A h \in DOMAIN w :
        LET self == w[h] IN
        /\ Rejected(self) =>
              /\ self.pc \in {"push", "stopCheck"}
              /\ Fetches(self.calls) = 0
              /\ Count(self.calls, "Disallowed") = 1
              /\ self.pc = "push" =>
                    self.res = <<[host |-> h, visited |-> FALSE, u |-> self.cmd.u,
                                  harvested |-> <<>>, idleDeath |-> FALSE]>>
              /\ self.pc = "stopCheck" =>
                    self.calls = <<"Disallowed", "push">> /\ Sent(h, self.cmd.u.id) = 1
        /\ Has(self.calls, "Disallowed") => Rejected(self)
        /\ self.robotsGroup.isNil => ~Has(self.calls, "Disallowed")

C2_Witness ==
    \E h \in DOMAIN w :
        /\ AtEnd(h)
        /\ Rejected(w[h])
        /\ w[h].calls = <<"Disallowed", "push">>

\* Worker h is blocked sending the idle-death response.
IdlePushing(self) == self.pc = "push" /\ self.res[1].idleDeath

\* C3: the idle timeout fires only with idleTTL > 0, when the timer armed
\* on entering the wait has run for idleTTL and neither a batch nor the
\* stop signal was ready before that; it then pushes exactly one response
\* with idleDeath=true, no URL and no harvested links, and the worker
\* terminates.  With idleTTL <= 0 there is no timer and no idle-death
\* response.  The timer is armed anew, from the time of entry, each time
\* the wait is entered; once it has run out with no batch and no stop
\* signal, the idle branch is the one the select can take.
C3_IdleTimeout ==
    \A h \in DOMAIN w :
        LET self == w[h]
            deadline == self.enteredAt + self.idleTTL
        IN  /\ IdlePushing(self) =>
                  /\ self.idleTTL > 0
                  /\ now >= deadline
                  /\ self.otherReady = Nil \/ self.otherReady[1] >= deadline
                  /\ self.res = <<[host |-> h, visited |-> FALSE, u |-> NilUrl,
                                   harvested |-> <<>>, idleDeath |-> TRUE]>>
                  /\ self.after = "done"
                  /\ self.nIdleDeath = 0
            /\ self.nIdleDeath <= 1
            /\ self.nIdleDeath = 1 => self.pc = "done" /\ self.exit = "idle"
            /\ self.idleTTL <= 0 =>
                  self.nIdleDeath = 0 /\ self.idleChan = Nil /\ self.exit # "idle"
            /\ self.pc = "select" =>
                  /\ self.idleChan = IF self.idleTTL > 0 THEN <<deadline>> ELSE Nil
                  /\ (self.idleTTL > 0 /\ now >= deadline /\ ~stop /\ pop[h] = <<>>) =>
                        /\ ENABLED IdleTimeout(h)
                        /\ ~ENABLED StopWhileWaiting(h)
                        /\ ~ENABLED PopBatch(h)

\* The worker died of idleness after a batch: the timer that fired is the
\* one armed when the wait was entered again.
C3_Witness ==
    \E h \in DOMAIN w :
        /\ w[h].exit = "idle"
        /\ w[h].nIdleDeath = 1
        /\ w[h].enteredAt > 0
        /\ now = w[h].enteredAt + w[h].idleTTL

StopExits == {"stop-wait", "stop-between"}

\* C4: a worker that terminates on the stop signal, in the wait for a batch
\* or between two commands, pushes no response for it; a run ends in one
\* way only, and an idle-death response is pushed only by the worker that
\* ends on the idle timeout.
C4_StopPushesNothing ==
    /\ [](\A h \in DOMAIN w :
            /\ w[h].pc = "done" <=> w[h].exit \in StopExits \cup {"idle"}
            /\ w[h].exit \in StopExits => w[h].nIdleDeath = 0 /\ w[h].res = <<>>
            /\ w[h].nIdleDeath > 0 => w[h].exit = "idle")
    /\ [][\A h \in DOMAIN w :
            /\ (w[h].pc # "done" /\ w'[h].pc = "done" /\ w'[h].exit \in StopExits) =>
                  /\ push' = push
                  /\ stop
                  /\ w[h].pc \in {"select", "stopCheck"}
                  /\ w'[h].exit = IF w[h].pc = "select" THEN "stop-wait"
                                  ELSE "stop-between"
            /\ w[h].pc = "done" => w'[h] = w[h]]_vars

C4_Witness ==
    \E h \in DOMAIN w :
        /\ w[h].exit = "stop-between"
        /\ w[h].nIdleDeath = 0
        /\ \E i \in 1..Len(received) : received[i].host = h

\* The stop signal was ready when worker h last left its select.
StopWasReady(self) == self.sel # <<>> /\ self.sel[1].stopReady

\* C5 as stated: whenever the stop signal is ready in the select together
\* with a pending batch or an expired idle timer, the stop branch is taken.
C5_StopTakesPrecedence ==
    \A h \in DOMAIN w :
        StopWasReady(w[h]) => w[h].sel[1].branch = "stop"

\* C5, amended: when the stop signal is ready in the select together with a
\* pending batch or an expired idle timer, the select takes any one of the
\* ready branches.  On the stop branch the worker terminates with no
\* command processed and no idle-death response; on the batch branch it
\* processes the first command of the batch only and terminates at the
\* stop check that follows it; on the idle branch it pushes the idle-death
\* response and terminates.
C5_StopBoundsTheBatch ==
    \A h \in DOMAIN w :
        LET self == w[h] IN
        StopWasReady(self) =>
            /\ stop
            /\ self.sel[1].branch = "stop" =>
                  /\ self.pc = "done" /\ self.exit = "stop-wait"
                  /\ self.nDispatched = 0 /\ self.nIdleDeath = 0 /\ self.res = <<>>
            /\ self.sel[1].branch = "batch" =>
                  /\ self.pc # "select"
                  /\ self.nDispatched <= 1
                  /\ self.pc = "done" => self.exit = "stop-between"
                  /\ self.nIdleDeath = 0
            /\ self.sel[1].branch = "idle" =>
                  /\ self.pc \in {"push", "done"}
                  /\ self.nDispatched = 0
                  /\ self.pc = "done" => self.exit = "idle" /\ self.nIdleDeath = 1

\* The batch branch was taken with the stop signal ready: the first of
\* the two commands of the batch was processed, the second was not.
C5_Witness ==
    \E h \in DOMAIN w :
        /\ StopWasReady(w[h])
        /\ w[h].sel[1].branch = "batch"
        /\ w[h].exit = "stop-between"
        /\ Len(w[h].batch) = 2
        /\ w[h].nDispatched = 1

\* The HEAD requests of a command that returned a response: those not
\* followed by the report of a fetch error.
HeadResponses(calls) ==
    Cardinality({i \in 1..Len(calls) :
                    /\ calls[i] = "Fetch:ua:HEAD"
                    /\ ~(i < Len(calls) /\ calls[i + 1] = "Error:Fetch")})

RequestGets(calls) == Count(calls, "RequestGet:true") + Count(calls, "RequestGet:false")

\* C6: RequestGet is called exactly once per HEAD response, right after
\* it, and never for a command without the head flag.  When it answers
\* false there is no GET and neither Visit nor Visited is called; when it
\* answers true exactly one GET follows, and its response is handled as
\* for a command without the head flag: visited exactly when it is 2xx.
C6_HeadThenGet ==
    \A h \in DOMAIN w :
        LET self == w[h]
            calls == self.calls
        IN  AtEnd(h) /\ ~isRobotsTxtUrl(self.cmd.u) =>
              /\ RequestGets(calls) = HeadResponses(calls)
              /\ \A i \in 1..Len(calls) :
                    calls[i] \in {"RequestGet:true", "RequestGet:false"} =>
                        i > 1 /\ calls[i - 1] = "Fetch:ua:HEAD"
              /\ Count(calls, "Fetch:ua:HEAD") = IF self.cmd.head /\ Fetches(calls) > 0
                                                 THEN 1 ELSE 0
              /\ ~self.cmd.head => RequestGets(calls) = 0
              /\ Has(calls, "RequestGet:false") =>
                    /\ Count(calls, "Fetch:ua:GET") = 0
                    /\ ~Has(calls, "Visit") /\ ~Has(calls, "Visited")
                    /\ self.lastFetch.Head
              /\ Has(calls, "RequestGet:true") =>
                    /\ Count(calls, "Fetch:ua:GET") = 1
                    /\ Fetches(calls) = 2
              /\ (Has(calls, "Fetch:ua:GET") /\ ~Has(calls, "Error:Fetch")) =>
                    /\ ~self.lastFetch.isNil /\ ~self.lastFetch.Head
                    /\ LET ok == self.lastFetch.StatusCode \in 200..299 IN
                       /\ Count(calls, "Visit") = (IF ok THEN 1 ELSE 0)
                       /\ Count(calls, "Visited") = (IF ok THEN 1 ELSE 0)
                       /\ Count(calls, "Error:HttpStatus") = (IF ok THEN 0 ELSE 1)
                       /\ Count(calls, "push") = 1

\* A HEAD answered 404 and RequestGet declined: no GET, no visit.
C6_Witness ==
    \E h \in DOMAIN w :
        /\ AtEnd(h)
        /\ w[h].cmd.head
        /\ w[h].calls = <<"ComputeDelay", "Fetch:ua:HEAD", "RequestGet:false">>
        /\ w[h].lastFetch.StatusCode = 404

\* The ids of the responses of host h the crawler has received, in order.
RECURSIVE ReceivedOf(_, _)
ReceivedOf(s, h) ==
    IF s = <<>> THEN <<>>
    ELSE (IF Head(s).host = h THEN <<Head(s).id>> ELSE <<>>) \o ReceivedOf(Tail(s), h)

Increasing(ids) == \A i, j \in 1..Len(ids) : i < j => ids[i] < ids[j]

C8_WaitGroup ==
    /\ wg = Cardinality({h \in DOMAIN w : w[h].pc # "done"})
    /\ \A h \in DOMAIN w :
          w[h].pc = "done" <=> w[h].exit \in {"stop-wait", "stop-between", "idle"}

C8_Witness ==
    /\ wg = 0
    /\ \E h \in DOMAIN w : w[h].exit = "idle"

C10_MinimumSpacing ==
    \A h \in DOMAIN w :
        LET self == w[h] IN
        (self.pc = "fetch" /\ self.lastAtt # <<>>)
        => self.att.start >= self.lastAtt[1].start + self.lastAtt[1].delay

\* The robots.txt command at the stop check failed: its fetch returned an
\* error, or its content (fetched or cached) could not be read or parsed.
RobotsFailed(self) ==
    /\ self.pc = "stopCheck"
    /\ isRobotsTxtUrl(self.cmd.u)
    /\ Has(self.calls, "Error:Fetch") \/ Has(self.calls, "Error:ParseRobots")

\* C11 as stated: after a robots.txt command whose fetch failed or whose
\* content failed to parse, the worker holds no policy, whatever policy it
\* held before, so that every later command is allowed; the failure was
\* reported through the Error hook, once, and the worker goes on.
C11_FailureMeansNoPolicy ==
    \A h \in DOMAIN w :
        RobotsFailed(w[h]) =>
            /\ w[h].robotsGroup.isNil
            /\ \A path \in Paths \ {RobotsPath} :
                  isAllowedPerRobotsPolicies(w[h], Url(path, 0))
            /\ Count(w[h].calls, "Error:Fetch")
                  + Count(w[h].calls, "Error:ParseRobots") = 1

\* The contents handed to robotstxt.FromBytes by the command.
ParsedBytes(calls) == {b \in RobotsBytes : Has(calls, FromBytesCall(b))}

\* C12: a robots.txt command calls RequestRobots first, once.  If that
\* answers "do not fetch" there is no ComputeDelay, Fetch or FetchedRobots
\* call and the policy is the parse result of the cached bytes.  Otherwise
\* there is exactly one Fetch, with the robots user agent and not a HEAD;
\* if it returns an error nothing is parsed, and if it returns a response
\* FetchedRobots is called once, right after it, before the content is
\* parsed and the policy replaced by the result.
C12_RobotsAcquisition ==
    \A h \in DOMAIN w :
        LET self == w[h]
            calls == self.calls
            parsed == ParsedBytes(calls)
            result == IF parsed = {} THEN NilGroup
                      ELSE FromBytes(CHOOSE b \in parsed : TRUE).g
        IN  AtEnd(h) /\ isRobotsTxtUrl(self.cmd.u) =>
              /\ calls[1] = "RequestRobots" /\ Count(calls, "RequestRobots") = 1
              /\ Cardinality(parsed) <= 1
              /\ Fetches(calls) = 0 =>
                    /\ ~Has(calls, "FetchedRobots") /\ ~Has(calls, "ComputeDelay")
                    /\ Cardinality(parsed) = 1 /\ parsed \subseteq extender.robots
                    /\ calls[2] = FromBytesCall(CHOOSE b \in parsed : TRUE)
                    /\ self.robotsGroup = result
              /\ Fetches(calls) > 0 =>
                    /\ Fetches(calls) = 1
                    /\ calls[2] = "ComputeDelay" /\ calls[3] = "Fetch:robot:GET"
                    /\ IF Has(calls, "Error:Fetch")
                       THEN /\ calls[4] = "Error:Fetch" /\ Len(calls) = 4
                            /\ self.lastFetch.isNil
                       ELSE /\ calls[4] = "FetchedRobots"
                            /\ Count(calls, "FetchedRobots") = 1
                            /\ \A i \in 5..Len(calls) :
                                  calls[i] \in {FromBytesCall(b) : b \in RobotsBytes}
                                               \cup {"Error:ParseRobots"}
                            /\ self.robotsGroup = result
                            /\ self.lastFetch.Robots /\ ~self.lastFetch.Head

\* A fetched robots.txt replaced the cached policy of an earlier command.
C12_Witness ==
    \E h \in DOMAIN w :
        /\ AtEnd(h)
        /\ w[h].calls = <<"RequestRobots", "ComputeDelay", "Fetch:robot:GET",
                          "FetchedRobots", "FromBytes:disallowpriv">>
        /\ w[h].robotsGroup.disallow = {"/priv"}
        /\ w[h].cmd.u.id = 2

\* The Fetch of the non-robots command in hand has returned an error.
FetchFailed(self) ==
    /\ ~self.cmd.u.isNil
    /\ ~isRobotsTxtUrl(self.cmd.u)
    /\ Has(self.calls, "Error:Fetch")

\* C13: when the Fetch of a non-robots command returns an error, at the
\* HEAD step or at the GET step, the last fetch info is nil, the Error
\* hook is called once, with the fetch kind, one workerResponse with
\* visited=false is pushed, and nothing else follows for the command: no
\* Fetch, RequestGet, Visit or Visited call.
C13_FetchError ==
    \A h \in DOMAIN w :
        LET self == w[h] IN
        FetchFailed(self) =>
            /\ self.lastFetch.isNil
            /\ self.pc \in {"push", "stopCheck"}
            /\ self.pc = "push" =>
                  /\ self.after = "stopCheck"
                  /\ self.res = <<[host |-> h, visited |-> FALSE, u |-> self.cmd.u,
                                   harvested |-> <<>>, idleDeath |-> FALSE]>>
            /\ LET calls == IF self.pc = "push" THEN self.calls \o <<"push">>
                            ELSE self.calls
               IN  calls \in
                     { <<"ComputeDelay", "Fetch:ua:HEAD", "Error:Fetch", "push">>,
                       <<"ComputeDelay", "Fetch:ua:GET", "Error:Fetch", "push">>,
                       <<"ComputeDelay", "Fetch:ua:HEAD", "RequestGet:true",
                         "ComputeDelay", "Fetch:ua:GET", "Error:Fetch", "push">> }
            /\ self.pc = "stopCheck" => Sent(h, self.cmd.u.id) = 1

\* The GET failed after the HEAD had returned a response: the fetch info
\* of the HEAD is gone.
C13_Witness ==
    \E h \in DOMAIN w :
        /\ AtEnd(h)
        /\ FetchFailed(w[h])
        /\ w[h].cmd.head
        /\ Len(w[h].calls) = 7
        /\ w[h].lastFetch.isNil

\* Worker h is about to push the workerResponse for the final, non-HEAD
\* response of the command in hand (requestUrl, after fetchUrl returned ok).
FinalResponse(self) == self.pc = "push" /\ self.after = "delay"

Errors(calls) ==
    Cardinality({i \in 1..Len(calls) :
                    calls[i] \in {"Error:Fetch", "Error:HttpStatus", "Error:ReadBody",
                                  "Error:ParseBody", "Error:ParseRobots",
                                  "Error:ProcessLinks"}})

\* C14: for the final response of a command, a status code in 200..299
\* makes the worker call Visit and push a workerResponse with visited=true
\* that carries the harvested list; any other status code makes it call
\* the Error hook once, with the HTTP-status kind, call neither Visit nor
\* Visited, and push one workerResponse with visited=false and no links.
C14_StatusClasses ==
    \A h \in DOMAIN w :
        LET self == w[h]
            calls == self.calls
        IN  /\ FinalResponse(self) =>
                  /\ ~self.lastFetch.isNil /\ ~self.lastFetch.Head
                  /\ ~Has(calls, "push")
                  /\ IF self.lastFetch.StatusCode \in 200..299
                     THEN /\ Count(calls, "Visit") = 1
                          /\ ~Has(calls, "Error:HttpStatus")
                          /\ self.visit # <<>>
                          /\ self.res = <<[host |-> h, visited |-> TRUE,
                                           u |-> self.cmd.u,
                                           harvested |-> self.visit[1].visited,
                                           idleDeath |-> FALSE]>>
                     ELSE /\ Count(calls, "Error:HttpStatus") = 1
                          /\ Errors(calls) = 1
                          /\ ~Has(calls, "Visit") /\ ~Has(calls, "Visited")
                          /\ self.visit = <<>>
                          /\ self.res = <<[host |-> h, visited |-> FALSE,
                                           u |-> self.cmd.u, harvested |-> <<>>,
                                           idleDeath |-> FALSE]>>
            /\ (self.pc = "delay" /\ ~isRobotsTxtUrl(self.cmd.u)) =>
                  Count(calls, "push") = 1 /\ Sent(h, self.cmd.u.id) = 1

\* A 300 answer to the GET that followed a HEAD: reported, not visited.
C14_Witness ==
    \E h \in DOMAIN w :
        /\ FinalResponse(w[h])
        /\ w[h].lastFetch.StatusCode = 300
        /\ w[h].cmd.head
        /\ ~w[h].res[1].visited

\* C17: for a 2xx final response Visit is called once and then Visited
\* once, last of all, also when the body could not be read or parsed, and
\* Visit is then given no document.  When Visit asks for the links to be
\* harvested and there is no document, the Error hook is called with the
\* process-links kind and the list Visit returned is kept; with a document
\* the links of the document are harvested.  The list given to Visited is
\* the list the workerResponse carries.
C17_VisitAndVisited ==
    \A h \in DOMAIN w :
        LET self == w[h]
            calls == self.calls
            n == Len(calls)
        IN  /\ (FinalResponse(self) /\ IsSuccess(self.lastFetch.StatusCode)) =>
                  /\ self.visit # <<>>
                  /\ LET v == self.visit[1]
                         noDoc == Has(calls, "Error:ReadBody")
                                    \/ Has(calls, "Error:ParseBody")
                     IN  /\ Count(calls, "Visit") = 1 /\ Count(calls, "Visited") = 1
                         /\ calls[n] = "Visited"
                         /\ v.doc = ~noDoc
                         /\ Count(calls, "Error:ReadBody")
                               + Count(calls, "Error:ParseBody") <= 1
                         /\ IF v.doLinks /\ ~v.doc
                            THEN /\ calls[n - 2] = "Visit"
                                 /\ calls[n - 1] = "Error:ProcessLinks"
                                 /\ v.visited = v.returned
                            ELSE /\ calls[n - 1] = "Visit"
                                 /\ ~Has(calls, "Error:ProcessLinks")
                                 /\ v.visited = IF v.doLinks THEN processLinks(Hrefs)
                                                ELSE v.returned
                         /\ noDoc => calls[n - (IF v.doLinks THEN 3 ELSE 2)]
                                        \in {"Error:ReadBody", "Error:ParseBody"}
                         /\ self.res[1].harvested = v.visited
                         /\ self.res[1].visited
            /\ Has(calls, "Visit") \/ Has(calls, "Visited") =>
                  ~self.lastFetch.isNil /\ IsSuccess(self.lastFetch.StatusCode)

\* Visit asked for the links of a page whose body could not be read: the
\* list it returned goes to Visited and to the crawler.
C17_Witness ==
    \E h \in DOMAIN w :
        /\ FinalResponse(w[h])
        /\ Has(w[h].calls, "Error:ReadBody")
        /\ Has(w[h].calls, "Error:ProcessLinks")
        /\ w[h].visit # <<>>
        /\ w[h].visit[1].visited = <<"http://h/v">>
        /\ w[h].res[1].harvested = <<"http://h/v">>

\* Worker h is processing a command of its batch.
MidCommand(self) ==
    \/ self.pc \in {"fetchWait", "fetch", "delay", "stopCheck"}
    \/ self.pc = "push" /\ self.after # "done"

\* C15: with the stop signal set while a command is being processed, the
\* command goes on to its end: the worker leaves the wait for the crawl
\* delay only when the timer has fired, and terminates only at the stop
\* check after the command.  It starts no other command of the batch,
\* pushes no response but that of the command, and takes no other batch.
C15_StopEndsTheBatch ==
    [][\A h \in DOMAIN w :
          (stop /\ MidCommand(w[h])) =>
              /\ w'[h].pc \notin {"dispatch", "select"}
              /\ w'[h].nDispatched = w[h].nDispatched
              /\ w'[h].batch = w[h].batch
              /\ Len(pop'[h]) >= Len(pop[h])
              /\ w'[h].cmd.u \in {w[h].cmd.u, NilUrl}
              /\ w'[h].pc = "done" =>
                    /\ w[h].pc = "stopCheck"
                    /\ w'[h].exit = "stop-between"
                    /\ w[h].res = <<>> /\ w[h].delayWait = Nil
              /\ (w[h].pc = "delay" /\ w'[h].pc # "delay") =>
                    w'[h].pc = "stopCheck" /\ Fired(w[h].delayWait, now)
              /\ (w[h].pc = "fetchWait" /\ w'[h].pc # "fetchWait") =>
                    w'[h].pc = "fetch" /\ (w[h].wait = Nil \/ Fired(w[h].wait, now))
              /\ (w[h].pc = "push" /\ w'[h].pc # "push") =>
                    /\ w'[h].pc = w[h].after
                    /\ push' = Append(push, w[h].res[1])
                    /\ w[h].res[1].u = w[h].cmd.u
              /\ w[h].pc # "push" =>
                    \A i \in 1..Len(push') : push'[i].host = h =>
                        \E j \in 1..Len(push) : push[j] = push'[i]]_vars

\* The stop signal came while the first of two commands was in hand: its
\* response was pushed and received, the second command never started.
C15_Witness ==
    \E h \in DOMAIN w :
        /\ w[h].exit = "stop-between"
        /\ w[h].sel # <<>> /\ ~w[h].sel[1].stopReady
        /\ Len(w[h].batch) = 2
        /\ w[h].nDispatched = 1
        /\ submitted[h] = 2
        /\ Len(received) = 1 /\ received[1].id = 1

\* C16 as stated: once the stop signal is set, every worker terminates and
\* the wait-group reaches zero, given only that every Extender call
\* returns and every timer fires; whether the crawler receives from the
\* result channel does not matter.
C16_ShutdownLiveness ==
    stop ~> (wg = 0 /\ \A h \in DOMAIN w : w[h].pc = "done")

\* C18: a Fetch call is made with no delay timer pending, after the timer
\* armed by the fetch before has fired, and right after one ComputeDelay
\* call.  ComputeDelay is given the configured crawlDelay, the crawl-delay
\* of the current policy, or zero without a policy, the delay the call
\* before returned, or zero at first, and the fetch info of the most
\* recent attempt: nil before any fetch and after a failed one.  What it
\* returns is stored as the last delay, which changes at no other step.
C18_ComputeDelayBeforeFetch ==
    /\ [](\A h \in DOMAIN w :
            LET self == w[h]
                calls == self.calls
                n == Len(calls)
                first == self.lastAtt = <<>>
            IN  /\ self.pc = "fetch" =>
                      /\ self.wait = Nil
                      /\ n >= 2 /\ IsFetchCall(calls[n]) /\ calls[n - 1] = "ComputeDelay"
                      /\ (~first /\ self.lastAtt[1].ok) =>
                            self.att.start >= self.lastAtt[1].end + self.lastAtt[1].delay
                      /\ self.att.opts = self.crawlDelay
                      /\ self.att.rob = IF self.robotsGroup.isNil THEN 0
                                        ELSE self.robotsGroup.CrawlDelay
                      /\ self.att.last = IF first THEN 0 ELSE self.lastAtt[1].delay
                      /\ self.att.info.isNil <=> (first \/ ~self.lastAtt[1].ok)
                      /\ ~self.att.info.isNil =>
                            /\ self.att.info.Head = self.lastAtt[1].head
                            /\ self.att.info.Robots = self.lastAtt[1].robots
                      /\ self.lastCrawlDelay = self.att.delay
                /\ Count(calls, "ComputeDelay") = Fetches(calls)
                /\ \A i \in 1..n : IsFetchCall(calls[i]) =>
                      i > 1 /\ calls[i - 1] = "ComputeDelay")
    /\ [][\A h \in DOMAIN w :
            w'[h].lastCrawlDelay # w[h].lastCrawlDelay =>
                /\ w[h].pc = "fetchWait" /\ w'[h].pc = "fetch"
                /\ w'[h].lastCrawlDelay = w'[h].att.delay]_vars

\* The GET of a command under a robots crawl-delay of 2, after its HEAD
\* returned a response: ComputeDelay is given the delay of 2 it returned
\* before and the fetch info of the HEAD.
C18_Witness ==
    \E h \in DOMAIN w :
        /\ w[h].pc = "fetch"
        /\ w[h].lastAtt # <<>>
        /\ w[h].att.last = 2 /\ w[h].att.rob = 2
        /\ ~w[h].att.info.isNil /\ w[h].att.info.Head
        /\ ~w[h].att.head

\* The worker can take up the command at the head of its batch.
CanDispatch(h) ==
    ENABLED (RobotsFromCache(h) \/ RobotsFetch(h) \/ RequestUrl(h) \/ Disallowed(h))

\* C19: no error ends the worker.  A command that met an error (a failed
\* fetch, a status code that is not 2xx, a body that cannot be read or
\* parsed, a robots.txt that cannot be parsed, no document to harvest
\* links from) goes on to the stop check as any other, and with no stop
\* signal the worker goes from there to the next command of the batch, or
\* to the wait for the next batch, which it can take up.  The worker
\* terminates only on the stop signal, in the wait or at the stop check,
\* or on the idle timeout.
C19_ErrorsNotFatal ==
    /\ [](\A h \in DOMAIN w :
            /\ Errors(w[h].calls) > 0 => w[h].pc \in {"push", "delay", "stopCheck"}
            /\ w[h].pc = "dispatch" => Len(w[h].batch) > 0 /\ CanDispatch(h)
            /\ (w[h].pc = "select" /\ pop[h] # <<>>) => ENABLED PopBatch(h)
            /\ w[h].pc = "done" => w[h].exit \in {"stop-wait", "stop-between", "idle"})
    /\ [][\A h \in DOMAIN w :
            /\ (w[h].pc # "done" /\ w'[h].pc = "done") =>
                  \/ stop /\ w[h].pc \in {"select", "stopCheck"}
                  \/ w[h].pc = "push" /\ w[h].res[1].idleDeath
            /\ (w[h].pc = "stopCheck" /\ Errors(w[h].calls) > 0 /\ ~stop
                  /\ w'[h] # w[h]) =>
                  IF Len(w[h].batch) > 1
                  THEN w'[h].pc = "dispatch" /\ w'[h].batch = Tail(w[h].batch)
                  ELSE w'[h].pc = "select" /\ w'[h].exit = ""]_vars

\* The second command of a batch is being fetched after the fetch of the
\* first one failed.
C19_Witness ==
    \E h \in DOMAIN w :
        /\ w[h].pc = "fetch"
        /\ w[h].nDispatched = 2
        /\ w[h].cmd.u.id = 2
        /\ w[h].lastAtt # <<>> /\ ~w[h].lastAtt[1].ok
        /\ Len(received) = 1 /\ received[1].id = 1

\* The Fetch calls of a command, in order.
FetchSeq(calls) == SelectSeq(calls, IsFetchCall)

\* C20: the loop of fetchUrl ends after two rounds at most.  A command
\* makes no Fetch call when the robots policy rejects it or when
\* robots.txt comes from the cache, one GET when it has no head flag or
\* is a fetched robots.txt, and with the head flag one HEAD, followed by
\* one GET at most; no second call is a HEAD.
C20_AtMostTwoFetches ==
    \A h \in DOMAIN w :
        LET self == w[h]
            calls == self.calls
            fs == FetchSeq(calls)
        IN  /\ Len(fs) <= 2
            /\ Len(fs) = 2 => fs = <<"Fetch:ua:HEAD", "Fetch:ua:GET">> /\ self.cmd.head
            /\ Len(fs) = 1 =>
                  fs[1] = IF isRobotsTxtUrl(self.cmd.u) THEN "Fetch:robot:GET"
                          ELSE IF self.cmd.head THEN "Fetch:ua:HEAD"
                          ELSE "Fetch:ua:GET"
            /\ Has(calls, "Disallowed") => Len(fs) = 0
            /\ self.pc = "fetchWait" => fs \in {<<>>, <<"Fetch:ua:HEAD">>}
            /\ AtEnd(h) =>
                  Len(fs) =
                     IF Has(calls, "Disallowed") THEN 0
                     ELSE IF isRobotsTxtUrl(self.cmd.u)
                          THEN (IF ParsedBytes(<<calls[2]>>) # {} THEN 0 ELSE 1)
                     ELSE IF ~self.cmd.head THEN 1
                     ELSE IF Has(calls, "RequestGet:true") THEN 2 ELSE 1

\* A command with the head flag went through both rounds and was visited.
C20_Witness ==
    \E h \in DOMAIN w :
        /\ AtEnd(h)
        /\ FetchSeq(w[h].calls) = <<"Fetch:ua:HEAD", "Fetch:ua:GET">>
        /\ Has(w[h].calls, "Visited")

====
